---- MODULE Spec2Model ----
(***************************************************************************)
(* Model of content-generation-agent/tools.py: the three agent tools       *)
(* generate_image, generate_video and upload_image_to_gcs, run as          *)
(* coroutines of one asyncio event loop against a remote generation        *)
(* service, a remote object store (GCS) and the ADK artifact store.        *)
(*                                                                         *)
(* Strings are sequences of one-character strings; a uuid4 rendering is    *)
(* one token.  A call of the synchronous SDK (client.models.*,             *)
(* client.operations.get, blob.download_as_bytes, blob.upload_from_string) *)
(* is in flight between the action that issues it and the action in which  *)
(* it returns; the coroutine keeps the event-loop thread in between.  An   *)
(* await (asyncio.sleep, save_artifact, load_artifact) hands the thread    *)
(* back to the loop.  Remote calls are modelled by the values they return; *)
(* the only transport error modelled is the object store's NotFound.       *)
(***************************************************************************)
EXTENDS Integers, Sequences, FiniteSets, TLC

\* ------------------------------------------------------------- bounds
MaxImages == 2      \* images in one generate_images response
MaxVideos == 2      \* generated videos in one operation response
MaxPolls == 2       \* not-done observations before the remote job completes
MaxFrags == 3       \* fragments in a normalisation input

\* ------------------------------------------------- program constants
PollInterval == 10  \* asyncio.sleep(10)

\* ------------------------------------------------------------ strings
GS == <<"g", "s", ":", "/", "/">>
SLASH == <<"/">>
PNG == <<".", "p", "n", "g">>
MP4 == <<".", "m", "p", "4">>
MIME_PNG == "image/png"
MIME_MP4 == "video/mp4"

StartsWith(s, p) ==
  Len(p) <= Len(s) /\ SubSeq(s, 1, Len(p)) = p

EndsWith(s, p) ==
  Len(p) <= Len(s) /\ SubSeq(s, Len(s) - Len(p) + 1, Len(s)) = p

Drop(s, n) == SubSeq(s, n + 1, Len(s))

\* Python str.replace(old, new): every non-overlapping occurrence, scanned
\* from the left.
RECURSIVE Replace(_, _, _)
Replace(s, old, new) ==
  IF Len(s) < Len(old) \/ old = <<>> THEN s
  ELSE IF StartsWith(s, old) THEN new \o Replace(Drop(s, Len(old)), old, new)
  ELSE <<Head(s)>> \o Replace(Tail(s), old, new)

\* Python s[1:]
FromSecond(s) == IF s = <<>> THEN <<>> ELSE Tail(s)

\* Whether "//" occurs in s at a position >= from.
HasDoubleSlashFrom(s, from) ==
  \E i \in from..(Len(s) - 1) : s[i] = "/" /\ s[i + 1] = "/"

\* "no double slash other than the one in the scheme separator"
NoExtraDoubleSlash(s) ==
  IF StartsWith(s, GS) THEN ~HasDoubleSlashFrom(s, Len(GS)) ELSE ~HasDoubleSlashFrom(s, 1)

\* ------------------------------------------------------- environment
\* Two tool invocations share the event loop.
Tasks == {1, 2}

\* uuid.uuid4() renderings, in the order they are drawn.
UuidHex == <<"u1", "u2", "u3", "u4", "u5", "u6", "u7", "u8", "u9", "u10", "u11", "u12">>
\* Remote operation names and the object names the video service writes.
OpIds == <<"op1", "op2", "op3", "op4">>
SampleNames == <<"sample_0.mp4", "sample_1.mp4", "sample_2.mp4", "sample_3.mp4">>
\* Image bytes the image service may return.
ImageBytes == {<<"i1">>, <<"i2">>}

\* os.environ["BUCKET"]: the documented form, and the same root written with
\* a trailing slash.
BucketRoot == GS \o <<"b">>
BucketRootSlash == GS \o <<"b", "/">>

\* Filenames a caller may pass that no generation call produced.
AbcPng == <<"a", "b", "c">> \o PNG
SlashAbcPng == SLASH \o AbcPng
NoteTxt == <<"n", ".", "t", "x", "t">>

\* An artifact that carries no inline data (a text part saved by another tool).
TextPart == [filename |-> NoteTxt, mime_type |-> "text/plain", has_inline |-> FALSE, data |-> <<>>]

VARIABLES
  BUCKET,      \* os.environ["BUCKET"]
  task,        \* per invocation: position, arguments and locals
  running,     \* the invocations holding the event-loop thread: {} or {t}
  artifacts,   \* the ADK artifact store: latest part per filename
  gcs,         \* the remote object store: blobs
  uuid_count,  \* uuid4() values drawn so far
  norm         \* bucket-address normalisation of one input

vars == <<BUCKET, task, running, artifacts, gcs, uuid_count, norm>>

\* ------------------------------------------------------------ values
Pending == [kind |-> "pending"]
PyNone == [kind |-> "None"]
FailedDict(detail) == [kind |-> "dict", status |-> "failed", detail |-> detail, filename |-> <<>>, has_filename |-> FALSE]
SuccessDict(detail, filename) == [kind |-> "dict", status |-> "success", detail |-> detail, filename |-> filename, has_filename |-> TRUE]
PyStr(s) == [kind |-> "str", value |-> s]

NoResponse == [present |-> FALSE, generated_videos |-> <<>>]
NoOperation == [submitted |-> FALSE, done |-> FALSE, response |-> NoResponse]
NoRequest == [sent |-> FALSE, model |-> "", has_image |-> FALSE, gcs_uri |-> <<>>, mime_type |-> "", output_gcs_uri |-> <<>>, number_of_videos |-> 0]

IdleTask == [
  pc |-> "idle", tool |-> "none",
  filename |-> <<>>, gcs_bucket |-> <<>>, number_of_videos |-> 0,
  existing_image_filename |-> <<>>,
  request |-> NoRequest, operation |-> NoOperation, images |-> <<>>,
  observed |-> <<>>, waits |-> 0, fetches |-> 0, slept |-> 0,
  idx |-> 0, data |-> <<>>, loaded |-> FALSE, has_filename |-> FALSE,
  saved |-> <<>>, uploads |-> <<>>, result |-> Pending, exc |-> ""]

\* ----------------------------------------------------- shared helpers
\* uuid.uuid4(): the n-th value drawn differs from all drawn before it.
Uuid4(n) == UuidHex[n + 1]

\* tool_context.save_artifact(filename, part): the store keeps the latest
\* part under a filename.
SaveArtifact(store, filename, part) ==
  {a \in store : a.filename # filename}
    \cup {[filename |-> filename, mime_type |-> part.mime_type,
           has_inline |-> part.has_inline, data |-> part.data]}

\* types.Part.from_bytes(data=..., mime_type=...)
PartFromBytes(data, mime_type) ==
  [mime_type |-> mime_type, has_inline |-> TRUE, data |-> data]

Finished(tk) == tk.pc \in {"returned", "raised"}

\* The loop picks an invocation only while no coroutine holds the thread.
ThreadFree == running = {}

\* -------------------------------------------------- generate_image
\* line 42: if not response.generated_images
\* (faulty variant: the emptiness test is dropped)
NoGeneratedImagesMut(images) == FALSE
NoGeneratedImages(images) == images = <<>>

\* line 48: filename = f"{uuid.uuid4()}.png"
ImageFilename(u) == <<u>> \o PNG

\* line 47: response.generated_images[0].image.image_bytes
\* (faulty variant: the last image instead of the first)
FirstImageMut(images) == images[Len(images)]
FirstImage(images) == images[1]

\* line 51: types.Part.from_bytes(data=image_bytes, mime_type="image/png")
ImagePart(image_bytes) == PartFromBytes(image_bytes, MIME_PNG)

\* Responses of client.models.generate_images.
ImageResponses ==
  UNION {[1..n -> ImageBytes] : n \in 0..MaxImages}

\* The agent calls generate_image; it runs up to the synchronous
\* client.models.generate_images call (lines 37-41), which is then in flight.
InvokeGenerateImage(t) ==
  /\ ThreadFree
  /\ task[t].pc = "idle"
  /\ task' = [task EXCEPT ![t] = [@ EXCEPT !.pc = "gi_generate_images",
                                           !.tool = "generate_image"]]
  /\ running' = {t}
  /\ UNCHANGED <<BUCKET, artifacts, gcs, uuid_count, norm>>

\* generate_images returns; lines 42-49 run up to the await of save_artifact.
GenerateImagesReturns(t) ==
  /\ task[t].pc = "gi_generate_images"
  /\ running = {t}
  /\ \E images \in ImageResponses :
       LET tk == [task[t] EXCEPT !.images = images] IN
       IF NoGeneratedImages(images)
       THEN /\ task' = [task EXCEPT ![t] = [tk EXCEPT
                   !.pc = "returned",
                   !.result = FailedDict("Image generation failed.")]]
            /\ running' = {}
            /\ UNCHANGED uuid_count
       ELSE IF images = <<>>
       THEN \* generated_images[0] of an empty list
            /\ task' = [task EXCEPT ![t] = [tk EXCEPT
                   !.pc = "raised", !.exc = "IndexError"]]
            /\ running' = {}
            /\ UNCHANGED uuid_count
       ELSE /\ task' = [task EXCEPT ![t] = [tk EXCEPT
                   !.pc = "gi_save_artifact",
                   !.data = FirstImage(images),
                   !.filename = ImageFilename(Uuid4(uuid_count)),
                   !.has_filename = TRUE]]
            /\ uuid_count' = uuid_count + 1
            /\ running' = {}
  /\ UNCHANGED <<BUCKET, artifacts, gcs, norm>>

\* The awaited save_artifact completes (lines 49-52) and the success result
\* is returned (lines 53-57).
SaveImageArtifact(t) ==
  /\ ThreadFree
  /\ task[t].pc = "gi_save_artifact"
  /\ LET part == ImagePart(task[t].data)
         entry == [filename |-> task[t].filename, mime_type |-> part.mime_type,
                   data |-> part.data] IN
       /\ artifacts' = SaveArtifact(artifacts, task[t].filename, part)
       /\ task' = [task EXCEPT ![t] = [@ EXCEPT
              !.pc = "returned",
              !.saved = Append(@, entry),
              !.result = SuccessDict(
                 "Image generated successfully and stored in artifacts.",
                 task[t].filename)]]
  /\ UNCHANGED <<BUCKET, running, gcs, uuid_count, norm>>

\* -------------------------------------------------- generate_video
\* Seed-image filenames a caller may pass ("" is the default).
SeedNames == {<<>>, AbcPng, SlashAbcPng}

\* line 90: gcs_location = f"{os.environ['BUCKET']}/{existing_image_filename}"
\* (faulty variant: the separator is left out)
GcsLocationMut(bucket, existing_image_filename) == bucket \o existing_image_filename
GcsLocation(bucket, existing_image_filename) ==
  bucket \o SLASH \o existing_image_filename

\* lines 82-101: the request handed to client.models.generate_videos.
VideoRequest(bucket, number_of_videos, existing_image_filename) ==
  IF existing_image_filename # <<>>
  THEN [sent |-> TRUE, model |-> "veo-2.0-generate-preview", has_image |-> TRUE,
        gcs_uri |-> GcsLocation(bucket, existing_image_filename),
        mime_type |-> MIME_PNG, output_gcs_uri |-> bucket,
        number_of_videos |-> number_of_videos]
  ELSE [sent |-> TRUE, model |-> "veo-2.0-generate-preview", has_image |-> FALSE,
        gcs_uri |-> <<>>, mime_type |-> "", output_gcs_uri |-> bucket,
        number_of_videos |-> number_of_videos]

\* line 102: while not operation.done
\* (faulty variant: the loop never tests done)
LoopTestMut(operation) == TRUE
LoopTest(operation) == ~operation.done

\* line 112: filename = f"{uuid.uuid4()}.mp4"
\* (faulty variant: one fixed name for every video)
VideoFilenameMut(u) == <<"video">> \o MP4
VideoFilename(u) == <<u>> \o MP4

\* line 115: bucket.replace("gs://", "")
BucketName(bucket) == Replace(bucket, GS, <<>>)

\* line 116: video_uri.replace(bucket, "")[1:]
BlobPath(video_uri, bucket) == FromSecond(Replace(video_uri, bucket, <<>>))

\* line 121: types.Part.from_bytes(data=video_bytes, mime_type="video/mp4")
VideoPart(video_bytes) == PartFromBytes(video_bytes, MIME_MP4)

\* The object the video service writes for the i-th video of t's operation,
\* under the request's output_gcs_uri.
VideoUri(output_gcs_uri, t, i) ==
  output_gcs_uri \o SLASH \o <<OpIds[t]>> \o SLASH \o <<SampleNames[i]>>
VideoData(t, i) == <<OpIds[t], SampleNames[i]>>

\* gs://bucket/object: the bucket is what follows the scheme up to the next
\* slash, the object name is the rest.
UriBucket(uri) ==
  LET rest == Drop(uri, Len(GS))
      cut == IF \E i \in 1..Len(rest) : rest[i] = "/"
             THEN CHOOSE i \in 1..Len(rest) :
                    rest[i] = "/" /\ \A j \in 1..(i - 1) : rest[j] # "/"
             ELSE Len(rest) + 1
  IN SubSeq(rest, 1, cut - 1)
UriObject(uri) == Drop(uri, Len(GS) + Len(UriBucket(uri)) + 1)

\* What the remote job may report on a status read: still running (while the
\* poll bound allows), or done with no response, or done with a response of
\* 0..number_of_videos generated videos.
RemoteOutcomes(t, tk) ==
  IF tk.operation.done THEN {tk.operation}
  ELSE {[submitted |-> TRUE, done |-> FALSE, response |-> NoResponse] :
          x \in IF Len(tk.observed) < MaxPolls THEN {1} ELSE {}}
       \cup {[submitted |-> TRUE, done |-> TRUE, response |-> NoResponse]}
       \cup {[submitted |-> TRUE, done |-> TRUE,
              response |-> [present |-> TRUE,
                            generated_videos |->
                              [i \in 1..n |-> VideoUri(tk.request.output_gcs_uri, t, i)]]] :
               n \in 0..tk.number_of_videos}

\* The blobs a completed job has written.
RemoteBlobs(t, operation) ==
  {[bucket |-> UriBucket(operation.response.generated_videos[i]),
    name |-> UriObject(operation.response.generated_videos[i]),
    data |-> VideoData(t, i), content_type |-> MIME_MP4] :
     i \in 1..Len(operation.response.generated_videos)}

\* download_blob_from_gcs (lines 155-160)
BlobExists(store, bucket_name, source_blob_name) ==
  \E b \in store : b.bucket = bucket_name /\ b.name = source_blob_name
DownloadBlob(store, bucket_name, source_blob_name) ==
  (CHOOSE b \in store : b.bucket = bucket_name /\ b.name = source_blob_name).data

\* lines 110-127: the head of one iteration of the for loop (idx is the
\* 1-based position in generated_videos), or the return after the last.
ForLoop(t, tk) ==
  IF tk.idx <= Len(tk.operation.response.generated_videos)
  THEN /\ task' = [task EXCEPT ![t] = [tk EXCEPT
              !.pc = "gv_download",
              !.filename = VideoFilename(Uuid4(uuid_count)),
              !.has_filename = TRUE]]
       /\ uuid_count' = uuid_count + 1
       /\ running' = {t}
  ELSE IF tk.has_filename
  THEN /\ task' = [task EXCEPT ![t] = [tk EXCEPT
              !.pc = "returned",
              !.result = SuccessDict(
                 "Video generated successfully and stored in artifacts.",
                 tk.filename)]]
       /\ running' = {}
       /\ UNCHANGED uuid_count
  ELSE \* line 126 reads filename, which no iteration bound
       /\ task' = [task EXCEPT ![t] = [tk EXCEPT
              !.pc = "raised", !.exc = "UnboundLocalError"]]
       /\ running' = {}
       /\ UNCHANGED uuid_count

\* lines 102-108: the loop test on a freshly read operation, then either the
\* sleep, or the code after the loop.
PollOrProceed(t, tk0) ==
  LET tk == [tk0 EXCEPT !.observed = Append(@, tk0.operation.done)] IN
  IF LoopTest(tk.operation)
  THEN /\ task' = [task EXCEPT ![t] = [tk EXCEPT
              !.pc = "gv_sleep", !.waits = @ + 1]]
       /\ running' = {}
       /\ UNCHANGED uuid_count
  ELSE IF tk.operation.response.present
  THEN ForLoop(t, [tk EXCEPT !.idx = 1])
  ELSE \* the function ends without a return statement
       /\ task' = [task EXCEPT ![t] = [tk EXCEPT
              !.pc = "returned", !.result = PyNone]]
       /\ running' = {}
       /\ UNCHANGED uuid_count

\* The agent calls generate_video; lines 82-101 run up to the synchronous
\* client.models.generate_videos call, which is then in flight.
InvokeGenerateVideo(t) ==
  /\ ThreadFree
  /\ task[t].pc = "idle"
  /\ \E n \in 1..MaxVideos, seed \in SeedNames :
       task' = [task EXCEPT ![t] = [@ EXCEPT
          !.pc = "gv_generate_videos",
          !.tool = "generate_video",
          !.number_of_videos = n,
          !.existing_image_filename = seed,
          !.request = VideoRequest(BUCKET, n, seed)]]
  /\ running' = {t}
  /\ UNCHANGED <<BUCKET, artifacts, gcs, uuid_count, norm>>

\* generate_videos returns the operation handle (lines 92-101); the loop
\* test follows.
GenerateVideosReturns(t) ==
  /\ task[t].pc = "gv_generate_videos"
  /\ running = {t}
  /\ \E operation \in RemoteOutcomes(t, task[t]) :
       /\ gcs' = gcs \cup RemoteBlobs(t, operation)
       /\ PollOrProceed(t, [task[t] EXCEPT !.operation = operation])
  /\ UNCHANGED <<BUCKET, artifacts, norm>>

\* asyncio.sleep(10) is over (line 104); the coroutine is resumed and issues
\* the synchronous client.operations.get (line 105).
SleepDone(t) ==
  /\ ThreadFree
  /\ task[t].pc = "gv_sleep"
  /\ task' = [task EXCEPT ![t] = [@ EXCEPT
        !.pc = "gv_operations_get", !.slept = @ + PollInterval]]
  /\ running' = {t}
  /\ UNCHANGED <<BUCKET, artifacts, gcs, uuid_count, norm>>

\* operations.get returns the operation's current state (line 105); the loop
\* test follows.
OperationsGetReturns(t) ==
  /\ task[t].pc = "gv_operations_get"
  /\ running = {t}
  /\ \E operation \in RemoteOutcomes(t, task[t]) :
       /\ gcs' = gcs \cup RemoteBlobs(t, operation)
       /\ PollOrProceed(t, [task[t] EXCEPT !.operation = operation,
                                           !.fetches = @ + 1])
  /\ UNCHANGED <<BUCKET, artifacts, norm>>

\* download_blob_from_gcs returns (lines 114-117, 155-160); the await of
\* save_artifact follows (line 119).
DownloadReturns(t) ==
  /\ task[t].pc = "gv_download"
  /\ running = {t}
  /\ LET video_uri == task[t].operation.response.generated_videos[task[t].idx]
         bucket_name == BucketName(BUCKET)
         source_blob_name == BlobPath(video_uri, BUCKET) IN
       IF BlobExists(gcs, bucket_name, source_blob_name)
       THEN task' = [task EXCEPT ![t] = [@ EXCEPT
               !.pc = "gv_save_artifact",
               !.data = DownloadBlob(gcs, bucket_name, source_blob_name)]]
       ELSE task' = [task EXCEPT ![t] = [@ EXCEPT
               !.pc = "raised", !.exc = "NotFound"]]
  /\ running' = {}
  /\ UNCHANGED <<BUCKET, artifacts, gcs, uuid_count, norm>>

\* The awaited save_artifact completes (lines 119-122); the for loop goes on
\* to the next video or the function returns.
SaveVideoArtifact(t) ==
  /\ ThreadFree
  /\ task[t].pc = "gv_save_artifact"
  /\ LET part == VideoPart(task[t].data)
         entry == [filename |-> task[t].filename, mime_type |-> part.mime_type,
                   data |-> part.data] IN
       /\ artifacts' = SaveArtifact(artifacts, task[t].filename, part)
       /\ ForLoop(t, [task[t] EXCEPT !.saved = Append(@, entry),
                                     !.idx = @ + 1])
  /\ UNCHANGED <<BUCKET, gcs, norm>>

\* --------------------------------------------- upload_image_to_gcs
\* line 141: gcs_bucket = gcs_bucket.replace("gs://", "")
NormalizeBucket(gcs_bucket) == Replace(gcs_bucket, GS, <<>>)

\* line 153: return f"gs://{gcs_bucket}/{filename}"
GcsAddress(gcs_bucket, filename) == GS \o gcs_bucket \o SLASH \o filename

\* tool_context.load_artifact(filename): the stored part, if any.
HasArtifact(store, filename) == \E a \in store : a.filename = filename
LoadArtifact(store, filename) == CHOOSE a \in store : a.filename = filename

\* line 147: if image_artifact and image_artifact.inline_data
ArtifactUsable(store, filename) ==
  HasArtifact(store, filename) /\ LoadArtifact(store, filename).has_inline

\* Filenames and bucket arguments a caller may pass: a name no call produced,
\* the name of a stored artifact; the default bucket or a bare bucket name.
UploadNames == {AbcPng} \cup {a.filename : a \in artifacts}
UploadBuckets == {BUCKET, <<"b">>}

\* The agent calls upload_image_to_gcs; lines 141-146 run up to the await of
\* load_artifact.
InvokeUpload(t) ==
  /\ ThreadFree
  /\ task[t].pc = "idle"
  /\ \E filename \in UploadNames, gcs_bucket \in UploadBuckets :
       task' = [task EXCEPT ![t] = [@ EXCEPT
          !.pc = "up_load_artifact",
          !.tool = "upload_image_to_gcs",
          !.filename = filename,
          !.gcs_bucket = NormalizeBucket(gcs_bucket)]]
  /\ UNCHANGED <<BUCKET, running, artifacts, gcs, uuid_count, norm>>

\* load_artifact completes (line 146); lines 147-153 run up to the
\* synchronous blob.upload_from_string, or to the return.
LoadArtifactDone(t) ==
  /\ ThreadFree
  /\ task[t].pc = "up_load_artifact"
  /\ IF ArtifactUsable(artifacts, task[t].filename)
     THEN /\ task' = [task EXCEPT ![t] = [@ EXCEPT
                 !.pc = "up_upload", !.loaded = TRUE,
                 !.data = LoadArtifact(artifacts, task[t].filename).data]]
          /\ running' = {t}
     ELSE /\ task' = [task EXCEPT ![t] = [@ EXCEPT
                 !.pc = "returned", !.loaded = FALSE,
                 !.result = PyStr(GcsAddress(task[t].gcs_bucket, task[t].filename))]]
          /\ running' = {}
  /\ UNCHANGED <<BUCKET, artifacts, gcs, uuid_count, norm>>

\* blob.upload_from_string returns (line 150); the address is returned
\* (line 153).
UploadReturns(t) ==
  /\ task[t].pc = "up_upload"
  /\ running = {t}
  /\ LET blob == [bucket |-> task[t].gcs_bucket, name |-> task[t].filename,
                  data |-> task[t].data, content_type |-> MIME_PNG] IN
       /\ gcs' = {b \in gcs : ~(b.bucket = blob.bucket /\ b.name = blob.name)}
                   \cup {blob}
       /\ task' = [task EXCEPT ![t] = [@ EXCEPT
              !.pc = "returned",
              !.uploads = Append(@, blob),
              !.result = PyStr(GcsAddress(task[t].gcs_bucket, task[t].filename))]]
  /\ running' = {}
  /\ UNCHANGED <<BUCKET, artifacts, uuid_count, norm>>

\* ------------------------------------------------------ the program
InitWith(buckets) ==
  /\ BUCKET \in buckets
  /\ task = [t \in Tasks |-> IdleTask]
  /\ running = {}
  /\ gcs = {}
  /\ uuid_count = 0

\* The artifact store may already hold a part without inline data.
InitTools(buckets) ==
  /\ InitWith(buckets)
  /\ artifacts \in {{}, {TextPart}}
  /\ norm = [pc |-> "off", input |-> <<>>, once |-> <<>>, twice |-> <<>>]

Init == InitTools({BucketRoot})

Next ==
  \E t \in Tasks :
    \/ InvokeGenerateImage(t)
    \/ GenerateImagesReturns(t)
    \/ SaveImageArtifact(t)
    \/ InvokeGenerateVideo(t)
    \/ GenerateVideosReturns(t)
    \/ SleepDone(t)
    \/ OperationsGetReturns(t)
    \/ DownloadReturns(t)
    \/ SaveVideoArtifact(t)
    \/ InvokeUpload(t)
    \/ LoadArtifactDone(t)
    \/ UploadReturns(t)

Spec == Init /\ [][Next]_vars

\* The same program with BUCKET configured either way.
InitAnyBucket == InitTools({BucketRoot, BucketRootSlash})
SpecAnyBucket == InitAnyBucket /\ [][Next]_vars

\* ------------------------------------- bucket-address normalisation
\* Inputs: concatenations of at most MaxFrags fragments.
Frags == {<<"g">>, <<"s", ":", "/", "/">>, GS, <<"b">>, SLASH}

RECURSIVE Concat(_)
Concat(fs) == IF fs = <<>> THEN <<>> ELSE Head(fs) \o Concat(Tail(fs))

NormInputs == {Concat(fs) : fs \in UNION {[1..n -> Frags] : n \in 0..MaxFrags}}

InitNormalize ==
  /\ InitWith({BucketRoot})
  /\ artifacts = {}
  /\ norm \in {[pc |-> "input", input |-> s, once |-> <<>>, twice |-> <<>>] :
                 s \in NormInputs}

\* gcs_bucket.replace("gs://", "") applied to the input (line 141).
Normalize ==
  /\ norm.pc = "input"
  /\ norm' = [norm EXCEPT !.pc = "once", !.once = NormalizeBucket(norm.input)]
  /\ UNCHANGED <<BUCKET, task, running, artifacts, gcs, uuid_count>>

\* The same replace applied to its own result.
NormalizeAgain ==
  /\ norm.pc = "once"
  /\ norm' = [norm EXCEPT !.pc = "twice", !.twice = NormalizeBucket(norm.once)]
  /\ UNCHANGED <<BUCKET, task, running, artifacts, gcs, uuid_count>>

NextNormalize == Normalize \/ NormalizeAgain

SpecNormalize == InitNormalize /\ [][NextNormalize]_vars

\* ============================================================ claims
VideoCalls == {t \in Tasks : task[t].tool = "generate_video"}
ImageCalls == {t \in Tasks : task[t].tool = "generate_image"}
UploadCalls == {t \in Tasks : task[t].tool = "upload_image_to_gcs"}

\* The call has left the poll loop.
PastLoop(tk) ==
  tk.pc \in {"gv_download", "gv_save_artifact", "returned", "raised"}

\* Every entry of the save logs, as <<task, position>>.
SaveSlots == {<<t, i>> : t \in Tasks, i \in 1..(MaxVideos + 1)}
LiveSlots == {sl \in SaveSlots : sl[2] <= Len(task[sl[1]].saved)}

\* C1: a generate_video call whose operation is done without a response
\* returns a structured failure result: it does not raise, does not return
\* None, and writes no artifact.
C1_NoResponseIsFailure ==
  \A t \in VideoCalls :
    (Finished(task[t]) /\ task[t].operation.done
       /\ ~task[t].operation.response.present)
    => /\ task[t].pc = "returned"
       /\ task[t].result.kind = "dict"
       /\ task[t].result.status = "failed"
       /\ task[t].saved = <<>>

\* C2: an upload_image_to_gcs call that finds no artifact with inline data
\* under the filename uploads nothing and does not return the address
\* gs://bucket/filename.
C2_MissingArtifactIsFailure ==
  \A t \in UploadCalls :
    (Finished(task[t]) /\ ~task[t].loaded)
    => /\ task[t].uploads = <<>>
       /\ ~(task[t].result.kind = "str"
            /\ task[t].result.value = GcsAddress(task[t].gcs_bucket, task[t].filename))

\* C3: with not-done seen on the first k loop tests and done on test k+1,
\* the loop makes exactly k waits of PollInterval, each followed by one
\* status re-fetch, and nothing is waited for or fetched after done is seen.
C3_PollLoop ==
  \A t \in VideoCalls :
    LET tk == task[t]
        obs == tk.observed
        k == Cardinality({i \in 1..Len(obs) : ~obs[i]}) IN
    /\ \A i \in 1..(Len(obs) - 1) : ~obs[i]
    /\ tk.waits = k
    /\ tk.pc = "gv_generate_videos" => obs = <<>> /\ tk.fetches = 0 /\ tk.slept = 0
    /\ tk.pc = "gv_sleep" =>
         /\ tk.fetches = tk.waits - 1
         /\ tk.slept = PollInterval * (tk.waits - 1)
    /\ tk.pc = "gv_operations_get" =>
         /\ tk.fetches = tk.waits - 1
         /\ tk.slept = PollInterval * tk.waits
    /\ PastLoop(tk) =>
         /\ obs # <<>> /\ obs[Len(obs)]
         /\ tk.operation.done
         /\ tk.fetches = k
         /\ tk.slept = PollInterval * k

\* Witness of C3: a call returned after not-done, not-done, done.
C3_TwoWaits ==
  \E t \in VideoCalls :
    /\ task[t].pc = "returned"
    /\ task[t].observed = <<FALSE, FALSE, TRUE>>
    /\ task[t].waits = 2 /\ task[t].fetches = 2

\* C4: a generate_image call whose response holds no image returns status
\* "failed" and saves no artifact.
C4_NoImageIsFailure ==
  \A t \in ImageCalls :
    (Finished(task[t]) /\ task[t].images = <<>>)
    => /\ task[t].pc = "returned"
       /\ task[t].result.kind = "dict"
       /\ task[t].result.status = "failed"
       /\ task[t].saved = <<>>

\* Witness of C4: a call returned on an empty response.
C4_EmptyResponseReturned ==
  \E t \in ImageCalls :
    /\ task[t].pc = "returned" /\ task[t].images = <<>>
    /\ task[t].result.status = "failed"

\* C5: a generate_image call that returns status "success" names a file
\* ending in ".png", and saved exactly one artifact: under that name, of
\* media type image/png, holding the bytes of the response's first image.
C5_ImageSuccess ==
  \A t \in ImageCalls :
    (task[t].pc = "returned" /\ task[t].result.kind = "dict"
       /\ task[t].result.status = "success")
    => /\ task[t].result.has_filename
       /\ EndsWith(task[t].result.filename, PNG)
       /\ Len(task[t].saved) = 1
       /\ task[t].saved[1] = [filename |-> task[t].result.filename,
                              mime_type |-> MIME_PNG,
                              data |-> task[t].images[1]]
       /\ [filename |-> task[t].result.filename, mime_type |-> MIME_PNG,
           has_inline |-> TRUE, data |-> task[t].images[1]] \in artifacts

\* Witness of C5: success on a response of two different images.
C5_SuccessOfTwoImages ==
  \E t \in ImageCalls :
    /\ task[t].pc = "returned" /\ task[t].result.status = "success"
    /\ Len(task[t].images) = 2
    /\ task[t].images[1] # task[t].images[2]

SuspensionPoints ==
  {"gi_generate_images", "gv_generate_videos", "gv_operations_get",
   "gv_download", "up_upload", "gv_sleep"}
C7_SuspendedYieldsThread ==
  \A t \in Tasks : task[t].pc \in SuspensionPoints => t \notin running

\* C8 as stated: with a seed filename the submitted reference is
\* BUCKET + "/" + filename and has no double slash besides the scheme's;
\* with none the request carries no image.
C8_ReferenceNoDoubleSlash ==
  \A t \in VideoCalls :
    task[t].request.sent =>
      IF task[t].existing_image_filename # <<>>
      THEN /\ task[t].request.has_image
           /\ task[t].request.gcs_uri
                = BUCKET \o SLASH \o task[t].existing_image_filename
           /\ NoExtraDoubleSlash(task[t].request.gcs_uri)
      ELSE ~task[t].request.has_image

\* A bucket root or filename that brings no slash to the joint.
CleanRoot(root) == NoExtraDoubleSlash(root) /\ ~EndsWith(root, SLASH)
CleanName(filename) == ~StartsWith(filename, SLASH) /\ ~HasDoubleSlashFrom(filename, 1)

\* C8 amended: the reference is BUCKET + "/" + filename; it has no double
\* slash besides the scheme's when the root does not end in a slash, the
\* filename does not begin with one and neither holds a double slash.
C8_ReferenceIsRootSlashName ==
  \A t \in VideoCalls :
    task[t].request.sent =>
      IF task[t].existing_image_filename # <<>>
      THEN /\ task[t].request.has_image
           /\ task[t].request.mime_type = MIME_PNG
           /\ task[t].request.gcs_uri
                = BUCKET \o SLASH \o task[t].existing_image_filename
           /\ (CleanRoot(BUCKET) /\ CleanName(task[t].existing_image_filename))
                => NoExtraDoubleSlash(task[t].request.gcs_uri)
      ELSE ~task[t].request.has_image /\ task[t].request.gcs_uri = <<>>

\* Witness of C8: a request submitted with a clean root and a clean name.
C8_SeededRequestSent ==
  \E t \in VideoCalls :
    /\ task[t].request.sent /\ task[t].request.has_image
    /\ task[t].existing_image_filename = AbcPng
    /\ CleanRoot(BUCKET)

\* C9: normalising twice gives what normalising once gives, and an input
\* that does not start with "gs://" is returned unchanged.
C9_NormalizeIdempotent ==
  /\ norm.pc = "twice" => norm.twice = norm.once
  /\ (norm.pc \in {"once", "twice"} /\ ~StartsWith(norm.input, GS))
       => norm.once = norm.input

\* C10: a generate_video call whose operation completed with a response
\* returns status "success" naming the last artifact it saved.
C10_SuccessNamesLastSaved ==
  \A t \in VideoCalls :
    (Finished(task[t]) /\ task[t].operation.done
       /\ task[t].operation.response.present)
    => /\ task[t].pc = "returned"
       /\ task[t].result.kind = "dict"
       /\ task[t].result.status = "success"
       /\ task[t].saved # <<>>
       /\ task[t].result.filename = task[t].saved[Len(task[t].saved)].filename

====
